---- MODULE Spec2Model ----
(***************************************************************************)
(* better-ipc: the IPC server's request dispatch (discord/ext/ipc/server.py)*)
(* and the client's request engine (discord/ext/ipc/client.py), with the    *)
(* payload and response objects of discord/ext/ipc/objects.py.              *)
(*                                                                          *)
(* Python values are modelled as strings.  None is the string "<None>".     *)
(* A dict is a function from key strings to value strings; a value string   *)
(* is the JSON text of the value ("200", "true", "0", ...), and "<object>"  *)
(* stands for a value json.dumps cannot encode.  A key "#1" stands for the  *)
(* integer key 1 and "#(1,2)" for a tuple key.  An optional dict is a set   *)
(* holding no dict (None) or one dict.                                      *)
(*                                                                          *)
(* The names the source imports but the repository does not define          *)
(* (IPCError, JSONEncodeError, ServerPayload) are taken to be what their    *)
(* names say: two exception classes, and the payload class of objects.py.   *)
(***************************************************************************)
EXTENDS Integers, Sequences, FiniteSets, TLC

None == "<None>"

EmptyMap == [k \in {} |-> ""]

\* Python truthiness of a str-or-None value
Truthy(v) == v \notin {None, ""}

\* Python truthiness of a dict value given as JSON text
FalsyValues == {"null", "0", "false", ""}

(***************************************************************************)
(* Bounds of the model                                                     *)
(***************************************************************************)
\* frames the server receives in one run
MaxTasks == 2

(***************************************************************************)
(* JSON: send_json (json.dumps) and message.json() (json.loads)            *)
(***************************************************************************)
\* json.dumps turns a non-string key into its string form
JsonKey(k) == IF k = "#1" THEN "1" ELSE k

\* keys json.dumps refuses: "keys must be str, int, float, bool or None"
BadKeys == {"#(1,2)"}

Unserializable == {"<object>"}

\* json.dumps of a dict: the TypeError it raises, or the object's members
json_dumps(m) ==
    IF \E k \in DOMAIN m : k \in BadKeys
    THEN [err |-> "TypeError: keys must be str", text |-> {}]
    ELSE IF \E k \in DOMAIN m : m[k] \in Unserializable
    THEN [err |-> "TypeError: Object of type is not JSON serializable", text |-> {}]
    ELSE [err |-> "", text |-> {<<JsonKey(k), m[k]>> : k \in DOMAIN m}]

\* json.loads of an object's members
json_loads(text) ==
    [k \in {p[1] : p \in text} |-> CHOOSE v \in {p[2] : p \in text} : <<k, v>> \in text]

(***************************************************************************)
(* Request frames                                                          *)
(***************************************************************************)
\* hdr: "absent" (no "headers" key), "empty" ({}), "other" (a dict without
\* "Authorization"), "auth" (a dict with "Authorization": auth)
Frame(endpoint, hdr, auth, data, kwargs, probe) ==
    [endpoint |-> endpoint, hdr |-> hdr, auth |-> auth, data |-> data,
     kwargs |-> kwargs, connection_test |-> probe]

\* Client.request: the payload built from the call's arguments
RequestPayload(endpoint, kwargs, secret) ==
    Frame(endpoint, "auth", secret, {kwargs}, {}, FALSE)

\* headers.get("Authorization") for a headers dict
HeadersGet(request) == IF request.hdr = "auth" THEN request.auth ELSE None

\* not headers
NotHeaders(request) == request.hdr \in {"absent", "empty"}

(***************************************************************************)
(* ClientPayload (the payload class handed to a handler)                   *)
(***************************************************************************)
ClientPayload(request) ==
    [payload |-> request, endpoint |-> request.endpoint, data |-> request.kwargs]

\* the attributes object.__getattribute__ finds before the fallback to data
PayloadAttributes == {"payload", "length", "endpoint", "data", "raw", "items"}

\* ClientPayload.__getitem__
PayloadGetItem(p, k) ==
    IF p.data = {} THEN [err |-> "TypeError", val |-> None]
    ELSE LET d == CHOOSE m \in p.data : TRUE IN
         IF k \in DOMAIN d THEN [err |-> "", val |-> d[k]]
         ELSE [err |-> "KeyError", val |-> None]

\* ClientPayload.__getattribute__ for a name that is an argument name
PayloadGetAttr(p, name) ==
    IF name \in PayloadAttributes THEN [err |-> "", val |-> "<attribute>"]
    ELSE LET r == PayloadGetItem(p, name) IN
         IF r.err = "KeyError" THEN [err |-> "AttributeError", val |-> None] ELSE r

(***************************************************************************)
(* Handler outcomes: what "await endpoint(...)" produces                    *)
(***************************************************************************)
ResNone == [kind |-> "none", map |-> EmptyMap, val |-> ""]

ResMap(m) == [kind |-> "mapping", map |-> m, val |-> ""]

ResStr(s) == [kind |-> "str", map |-> EmptyMap, val |-> s]

\* a value that is neither a dict nor a str (an int, given as JSON text)
ResOther(v) == [kind |-> "other", map |-> EmptyMap, val |-> v]

ResRaise(msg) == [kind |-> "raise", map |-> EmptyMap, val |-> msg]

\* Python truthiness of a handler's return value
ResultTruthy(r) ==
    CASE r.kind = "none" -> FALSE
      [] r.kind = "mapping" -> DOMAIN r.map # {}
      [] r.kind = "str" -> r.val # ""
      [] OTHER -> r.val \notin FalsyValues

ErrorResponse(msg, code) == ("error" :> msg) @@ ("code" :> code)

(***************************************************************************)
(* The inputs of a run                                                     *)
(***************************************************************************)
Names == {"ping", "boom"}

\* the handler each name is first registered with
OwnHandler == [name \in Names |-> IF name = "ping" THEN "h1" ELSE "h2"]

\* the handlers a name can be registered with
Handlers == {"h1", "h2"}

Conns == {"c1"}

\* two clients connected at once, each with its own connection
Peers == {"c1", "c2"}

SecretKeys == {None, "key"}

NoArgs == EmptyMap

UserArgs == ("user_id" :> "7")

\* request("ping", user_id=7, timeout=5): timeout is one more keyword argument
TimedArgs == ("timeout" :> "5") @@ UserArgs

\* frames Client.request builds, for a client configured with the token
ClientFrames ==
    {RequestPayload("ping", NoArgs, tok) : tok \in {None, "key", "", "bad"}}
    \cup {RequestPayload("boom", NoArgs, "key")}

\* frames of other senders: no endpoint, no or empty headers, the liveness
\* probe (headers without "Authorization" behave as "Authorization": None)
RawFrames ==
    {Frame(None, "auth", tok, {NoArgs}, {}, FALSE) : tok \in {None, "key"}}
    \cup {Frame("ping", h, None, {NoArgs}, {}, FALSE) : h \in {"absent", "empty"}}
    \cup {Frame(None, "absent", None, {}, {}, TRUE)}

RequestFrames == ClientFrames \cup RawFrames

MapOk == ("ok" :> "true")

\* what the handlers of the dispatch specification return
PlainReturns == {ResNone, ResMap(MapOk)}

HandlerMaps ==
    {EmptyMap, MapOk, MapOk @@ ("code" :> "404"), MapOk @@ ("code" :> "0"),
     ("user" :> "<object>"), ("#1" :> "a"), ("#(1,2)" :> "a")}

\* what the handlers of the result specification return
HandlerReturns ==
    {ResNone, ResStr("pong"), ResStr(""), ResOther("5"), ResOther("0")}
    \cup {ResMap(m) : m \in HandlerMaps}

HandlerErrors == {"boom failed"}

(***************************************************************************)
(* Server state                                                            *)
(***************************************************************************)
VARIABLES
    secret_key,   \* Server.secret_key
    endpoints,    \* Server.endpoints: name -> handler
    conn,         \* conn[c]: "idle", "open" (accept_request iterating) or "closed"
    tasks,        \* the process_request tasks created so far, in arrival order
    running,      \* Server.start has been called: the webserver is set up
    lastRegistered, \* ghost: the handler of the latest Server.route call of each name
    do_multicast, \* Server.do_multicast
    broadcasts,   \* the requests made to the multicast port, with their outcome
    runner,       \* Server._runner: the index of the runner in runners, 0 for None
    runners,      \* the AppRunner objects created so far
    setups,       \* the setup() tasks start() has created, in creation order
    stopped       \* stop() has returned

\* the listeners' state
lvars == <<runner, runners, setups, stopped>>

svars == <<secret_key, endpoints, conn, tasks, running, lastRegistered,
           do_multicast, broadcasts, runner, runners, setups, stopped>>

(***************************************************************************)
(* Client state                                                            *)
(***************************************************************************)
VARIABLES
    started,      \* Client.started
    closed,       \* Client.closed
    session,      \* Client.session: the index of the session in sessions, 0 for None
    sessions,     \* the ClientSession objects created so far: "open" or "closed"
    calls,        \* the start(), close() and request() calls made so far
    closedSince   \* ghost: a close() that overlapped no start() has returned
                  \* and start() was not called after it

cvars == <<started, closed, session, sessions, calls, closedSince>>

vars == <<secret_key, endpoints, conn, tasks, running, lastRegistered,
          do_multicast, broadcasts, runner, runners, setups, stopped,
          started, closed, session, sessions, calls, closedSince>>

NewTask(c, request, later, holder) ==
    [conn |-> c, request |-> request, pc |-> "new",
     holder |-> holder,   \* ghost: the first sender among the connections still open
     afterFailure |-> later,  \* ghost: a handler had already raised on this connection
     found |-> FALSE,     \* ghost: the endpoint was registered when the task dispatched
     invoked |-> <<>>,    \* handlers this task has called
     payload |-> {},      \* the payload handed to the handler
     hres |-> {},         \* what the handler returned or raised
     errors |-> <<>>,     \* bot.dispatch("ipc_error", ...) calls of this task
     sent |-> <<>>,       \* frames this task has sent on its connection
     raised |-> FALSE]    \* the task ended with an exception

TaskIds == 1 .. Len(tasks)

\* ghost: the connection, among those still open, whose first frame arrived
\* earliest; c itself when no open connection has sent a frame yet
FirstSender(c) ==
    LET senders == {t \in TaskIds : conn[tasks[t].conn] = "open"} IN
    IF senders = {} THEN c
    ELSE tasks[CHOOSE t \in senders : \A u \in senders : t <= u].conn

\* Server's class attribute _runner = None; no task, no runner yet
InitListeners ==
    /\ runner = 0
    /\ runners = <<>>
    /\ setups = <<>>
    /\ stopped = FALSE

InitServer ==
    /\ InitListeners
    /\ secret_key \in SecretKeys
    /\ endpoints = EmptyMap
    /\ conn = [c \in Conns |-> "idle"]
    /\ tasks = <<>>
    /\ running = FALSE
    /\ lastRegistered = EmptyMap
    /\ do_multicast = FALSE
    /\ broadcasts = <<>>

\* Client's class attributes: session = None, closed = False, started = False
InitClient ==
    /\ started = FALSE
    /\ closed = FALSE
    /\ session = 0
    /\ sessions = <<>>
    /\ calls = <<>>
    /\ closedSince = FALSE

Init == InitServer /\ InitClient

\* a server with a secret and two clients about to connect
InitPeers ==
    /\ secret_key = "key"
    /\ endpoints = EmptyMap
    /\ conn = [c \in Peers |-> "idle"]
    /\ tasks = <<>>
    /\ running = FALSE
    /\ lastRegistered = EmptyMap
    /\ do_multicast = FALSE
    /\ broadcasts = <<>>
    /\ InitListeners
    /\ InitClient

\* a server constructed with do_multicast on or off
InitMulticast ==
    /\ secret_key \in SecretKeys
    /\ endpoints = EmptyMap
    /\ conn = [c \in Conns |-> "idle"]
    /\ tasks = <<>>
    /\ running = FALSE
    /\ lastRegistered = EmptyMap
    /\ do_multicast \in BOOLEAN
    /\ broadcasts = <<>>
    /\ InitListeners
    /\ InitClient

(***************************************************************************)
(* Server.route: Server.endpoints[name] = (func, payload_cls)              *)
(***************************************************************************)
\* a registration that keeps the handler a name already has
RouteKeepingFirst(name, h) ==
    /\ endpoints' = endpoints @@ (name :> h)
    /\ lastRegistered' = [n \in DOMAIN lastRegistered \cup {name} |->
           IF n = name THEN h ELSE lastRegistered[n]]
    /\ UNCHANGED <<secret_key, conn, tasks, running, do_multicast, broadcasts>>
    /\ UNCHANGED lvars
    /\ UNCHANGED cvars

Route(name, h) ==
    /\ endpoints' = (name :> h) @@ endpoints
    /\ lastRegistered' = [n \in DOMAIN lastRegistered \cup {name} |->
           IF n = name THEN h ELSE lastRegistered[n]]
    /\ UNCHANGED <<secret_key, conn, tasks, running, do_multicast, broadcasts>>
    /\ UNCHANGED lvars
    /\ UNCHANGED cvars

(***************************************************************************)
(* Server.start and Server.setup: the application is created with its      *)
(* route and the site starts listening                                     *)
(***************************************************************************)
Start ==
    /\ running' = TRUE
    /\ UNCHANGED <<secret_key, endpoints, conn, tasks, lastRegistered, do_multicast, broadcasts>>
    /\ UNCHANGED lvars
    /\ UNCHANGED cvars

(***************************************************************************)
(* Server.accept_request                                                   *)
(***************************************************************************)
\* a client connects: websocket.prepare
Accept(c) ==
    /\ running
    /\ conn[c] = "idle"
    /\ conn' = [conn EXCEPT ![c] = "open"]
    /\ UNCHANGED <<secret_key, endpoints, tasks, running, lastRegistered, do_multicast, broadcasts>>
    /\ UNCHANGED lvars
    /\ UNCHANGED cvars

\* async for message in websocket: asyncio.create_task(process_request(...))
Receive(c, request) ==
    /\ conn[c] = "open"
    /\ Len(tasks) < MaxTasks
    /\ tasks' = Append(tasks, NewTask(c, request,
           \E t \in TaskIds : tasks[t].conn = c /\ \E r \in tasks[t].hres : r.kind = "raise",
           FirstSender(c)))
    /\ UNCHANGED <<secret_key, endpoints, conn, running, lastRegistered, do_multicast, broadcasts>>
    /\ UNCHANGED lvars
    /\ UNCHANGED cvars

\* the peer closes the connection: the iteration ends
Disconnect(c) ==
    /\ conn[c] = "open"
    /\ conn' = [conn EXCEPT ![c] = "closed"]
    /\ UNCHANGED <<secret_key, endpoints, tasks, running, lastRegistered, do_multicast, broadcasts>>
    /\ UNCHANGED lvars
    /\ UNCHANGED cvars

(***************************************************************************)
(* Server.handle_multicast                                                 *)
(***************************************************************************)
\* the handler of the multicast port dispatches the frame as the standard
\* port does
HandleMulticastDispatching(request) ==
    /\ running /\ do_multicast
    /\ Len(broadcasts) < MaxTasks
    /\ broadcasts' = Append(broadcasts,
           IF request.endpoint \in DOMAIN endpoints /\ HeadersGet(request) = secret_key
           THEN [request |-> request, status |-> "200",
                 invoked |-> <<endpoints[request.endpoint]>>]
           ELSE [request |-> request, status |-> "403", invoked |-> <<>>])
    /\ UNCHANGED <<secret_key, endpoints, conn, tasks, running, lastRegistered, do_multicast>>
    /\ UNCHANGED lvars
    /\ UNCHANGED cvars

\* a client connects to the multicast port to send `request`: line 196 calls
\* self.process_request(request) with one argument short, the TypeError leaves
\* the handler and the web server answers the connection with status 500
HandleMulticast(request) ==
    /\ running /\ do_multicast
    /\ Len(broadcasts) < MaxTasks
    /\ broadcasts' = Append(broadcasts,
           [request |-> request, status |-> "500", invoked |-> <<>>])
    /\ UNCHANGED <<secret_key, endpoints, conn, tasks, running, lastRegistered, do_multicast>>
    /\ UNCHANGED lvars
    /\ UNCHANGED cvars

(***************************************************************************)
(* Server.process_request                                                  *)
(***************************************************************************)
\* line 231: not headers or headers.get("Authorization") != self.secret_key
Unauthorized(request, secret) ==
    NotHeaders(request) \/ HeadersGet(request) # secret

\* lines 217-229: the ipc_error events of the first check (its response is
\* overwritten by every branch that follows)
FirstCheck(request, secret) ==
    IF ~Truthy(HeadersGet(request))
    THEN <<"no token provided">>
    ELSE IF HeadersGet(request) # secret
    THEN <<"invalid token provided">>
    ELSE <<>>

\* an unknown name falls back to some registered handler
ResolveFallback(endpoint, registry) ==
    IF endpoint \in DOMAIN registry THEN registry[endpoint]
    ELSE IF DOMAIN registry = {} THEN None
    ELSE registry[CHOOSE name \in DOMAIN registry : TRUE]

\* lines 245 and 252: endpoint not in self.endpoints, Server.endpoints.get(endpoint)
Resolve(endpoint, registry) ==
    IF endpoint \in DOMAIN registry THEN registry[endpoint] ELSE None

\* lines 210-264, up to the call of the handler: the exception that ends the
\* task (crashed), the ipc_error events, the response chosen, the handler to call
Dispatch(request, secret, registry) ==
    IF request.hdr = "absent"
    THEN \* headers is None: headers.get raises AttributeError
         [crashed |-> TRUE, errors |-> <<>>, response |-> ResNone, invoke |-> None]
    ELSE
    LET first == FirstCheck(request, secret) IN
    IF Unauthorized(request, secret)
    THEN [crashed |-> FALSE,
          errors |-> first \o <<"invalid or no token provided">>,
          response |-> ResMap(ErrorResponse(
              "Received unauthorized request (invalid or no token provided).", "403")),
          invoke |-> None]
    ELSE IF ~Truthy(request.endpoint)
    THEN [crashed |-> FALSE,
          errors |-> first \o <<"no endpoint provided">>,
          response |-> ResMap(ErrorResponse(
              "Received invalid request (no endpoint provided)", "404")),
          invoke |-> None]
    ELSE IF Resolve(request.endpoint, registry) = None
    THEN [crashed |-> FALSE,
          errors |-> first \o <<"invalid endpoint provided">>,
          response |-> ResMap(ErrorResponse(
              "Received invalid request (invalid endpoint provided)", "404")),
          invoke |-> None]
    ELSE [crashed |-> FALSE, errors |-> first, response |-> ResNone,
          invoke |-> Resolve(request.endpoint, registry)]

\* lines 280-281: if not response.get("code"): response["code"] = 200
WithCode(m) ==
    IF "code" \notin DOMAIN m \/ m["code"] \in FalsyValues
    THEN ("code" :> "200") @@ m
    ELSE m

EncodeErrorText ==
    "IPC route returned values which are not able to be sent over sockets."

\* lines 277-305: the frames sent, the ipc_error events, whether the task raised
Respond(response, open) ==
    LET resp == IF ResultTruthy(response) THEN response ELSE ResMap(EmptyMap) IN
    IF resp.kind # "mapping"
    THEN \* response.get raises AttributeError: re-raised as IPCError
         [sent |-> <<>>, errors |-> <<>>, raised |-> TRUE]
    ELSE
    LET j == json_dumps(WithCode(resp.map)) IN
    IF j.err = ""
    THEN IF open
         THEN [sent |-> <<j.text>>, errors |-> <<>>, raised |-> FALSE]
         ELSE [sent |-> <<>>, errors |-> <<>>, raised |-> TRUE]
    ELSE IF j.err = "TypeError: Object of type is not JSON serializable"
    THEN [sent |-> IF open
                   THEN <<json_dumps(ErrorResponse(EncodeErrorText, "500")).text>>
                   ELSE <<>>,
          errors |-> <<EncodeErrorText>>,
          raised |-> TRUE]
    ELSE \* another TypeError: caught, nothing sent, nothing raised
         [sent |-> <<>>, errors |-> <<>>, raised |-> FALSE]

\* the task's record once lines 277-305 have run on `response`
Finished(task, response, open) ==
    LET r == Respond(response, open) IN
    [task EXCEPT !.pc = "done",
                 !.errors = @ \o r.errors,
                 !.sent = @ \o r.sent,
                 !.raised = r.raised]

\* a task that starts only when the tasks before it have ended
ProcessRequestInTurn(t) ==
    /\ tasks[t].pc = "new"
    /\ \A u \in 1 .. t - 1 : tasks[u].pc = "done"
    /\ LET task == tasks[t]
           d == Dispatch(task.request, secret_key, endpoints)
           seen == [task EXCEPT !.errors = d.errors,
                                !.found = task.request.endpoint \in DOMAIN endpoints]
       IN  tasks' = [tasks EXCEPT ![t] =
               IF d.crashed
               THEN [seen EXCEPT !.pc = "done", !.raised = TRUE]
               ELSE IF d.invoke # None
               THEN [seen EXCEPT !.pc = "handler",
                                 !.invoked = <<d.invoke>>,
                                 !.payload = {ClientPayload(task.request)}]
               ELSE Finished(seen, d.response, conn[task.conn] = "open")]
    /\ UNCHANGED <<secret_key, endpoints, conn, running, lastRegistered, do_multicast, broadcasts>>
    /\ UNCHANGED lvars
    /\ UNCHANGED cvars

\* the task starts: everything up to its first await
ProcessRequest(t) ==
    /\ tasks[t].pc = "new"
    /\ LET task == tasks[t]
           d == Dispatch(task.request, secret_key, endpoints)
           seen == [task EXCEPT !.errors = d.errors,
                                !.found = task.request.endpoint \in DOMAIN endpoints]
       IN  tasks' = [tasks EXCEPT ![t] =
               IF d.crashed
               THEN [seen EXCEPT !.pc = "done", !.raised = TRUE]
               ELSE IF d.invoke # None
               THEN [seen EXCEPT !.pc = "handler",
                                 !.invoked = <<d.invoke>>,
                                 !.payload = {ClientPayload(task.request)}]
               ELSE Finished(seen, d.response, conn[task.conn] = "open")]
    /\ UNCHANGED <<secret_key, endpoints, conn, running, lastRegistered, do_multicast, broadcasts>>
    /\ UNCHANGED lvars
    /\ UNCHANGED cvars

\* response = await endpoint(...) returns, then lines 277-305
HandlerReturn(t, r) ==
    /\ tasks[t].pc = "handler"
    /\ tasks' = [tasks EXCEPT ![t] =
           Finished([tasks[t] EXCEPT !.hres = {r}], r, conn[tasks[t].conn] = "open")]
    /\ UNCHANGED <<secret_key, endpoints, conn, running, lastRegistered, do_multicast, broadcasts>>
    /\ UNCHANGED lvars
    /\ UNCHANGED cvars

\* the handler's exception is not caught: the task ends with it
HandlerRaiseUncaught(t, msg) ==
    /\ tasks[t].pc = "handler"
    /\ tasks' = [tasks EXCEPT ![t] =
           [@ EXCEPT !.hres = {ResRaise(msg)}, !.pc = "done", !.raised = TRUE]]
    /\ UNCHANGED <<secret_key, endpoints, conn, running, lastRegistered, do_multicast, broadcasts>>
    /\ UNCHANGED lvars
    /\ UNCHANGED cvars

\* the handler raises: lines 265-275, then lines 277-305
HandlerRaise(t, msg) ==
    /\ tasks[t].pc = "handler"
    /\ tasks' = [tasks EXCEPT ![t] =
           Finished([tasks[t] EXCEPT !.hres = {ResRaise(msg)},
                                     !.errors = @ \o <<msg>>],
                    ResMap(ErrorResponse(msg, "500")),
                    conn[tasks[t].conn] = "open")]
    /\ UNCHANGED <<secret_key, endpoints, conn, running, lastRegistered, do_multicast, broadcasts>>
    /\ UNCHANGED lvars
    /\ UNCHANGED cvars

\* the dispatch specification: every kind of frame, handlers that return a
\* plain result or raise
Next ==
    \/ \E name \in Names : Route(name, OwnHandler[name])
    \/ Start
    \/ \E c \in Conns : Accept(c)
    \/ \E c \in Conns, request \in RequestFrames : Receive(c, request)
    \/ \E c \in Conns : Disconnect(c)
    \/ \E t \in TaskIds : ProcessRequest(t)
    \/ \E t \in TaskIds, r \in PlainReturns : HandlerReturn(t, r)
    \/ \E t \in TaskIds, msg \in HandlerErrors : HandlerRaise(t, msg)

Spec == Init /\ [][Next]_vars

\* the result specification: the frames of a client that holds the server's
\* key, handlers that return every kind of value
NextResult ==
    \/ \E name \in Names : Route(name, OwnHandler[name])
    \/ Start
    \/ \E c \in Conns : Accept(c)
    \/ \E c \in Conns : Receive(c, RequestPayload("ping", UserArgs, secret_key))
    \/ \E c \in Conns : Disconnect(c)
    \/ \E t \in TaskIds : ProcessRequest(t)
    \/ \E t \in TaskIds, r \in HandlerReturns : HandlerReturn(t, r)
    \/ \E t \in TaskIds, msg \in HandlerErrors : HandlerRaise(t, msg)

ResultSpec == Init /\ [][NextResult]_vars

\* the two-client specification: both clients hold the key and request "ping"
NextPeers ==
    \/ Route("ping", OwnHandler["ping"])
    \/ Start
    \/ \E c \in Peers : Accept(c)
    \/ \E c \in Peers : Receive(c, RequestPayload("ping", NoArgs, secret_key))
    \/ \E c \in Peers : Disconnect(c)
    \/ \E t \in TaskIds : ProcessRequest(t)
    \/ \E t \in TaskIds, r \in PlainReturns : HandlerReturn(t, r)
    \/ \E t \in TaskIds, msg \in HandlerErrors : HandlerRaise(t, msg)

PeerSpec == InitPeers /\ [][NextPeers]_vars

\* the multicast specification: requests reach both ports
NextMulticast ==
    \/ \E name \in Names : Route(name, OwnHandler[name])
    \/ Start
    \/ \E c \in Conns : Accept(c)
    \/ \E c \in Conns : Receive(c, RequestPayload("ping", NoArgs, secret_key))
    \/ \E c \in Conns : Disconnect(c)
    \/ \E request \in ClientFrames : HandleMulticast(request)
    \/ \E t \in TaskIds : ProcessRequest(t)
    \/ \E t \in TaskIds, r \in PlainReturns : HandlerReturn(t, r)
    \/ \E t \in TaskIds, msg \in HandlerErrors : HandlerRaise(t, msg)

MulticastSpec == InitMulticast /\ [][NextMulticast]_vars

\* the registry specification: any name is registered with any handler, any
\* number of times, before and after requests for it
NextRegistry ==
    \/ \E name \in Names, h \in Handlers : Route(name, h)
    \/ Start
    \/ \E c \in Conns : Accept(c)
    \/ \E c \in Conns, name \in Names : Receive(c, RequestPayload(name, NoArgs, secret_key))
    \/ \E c \in Conns : Disconnect(c)
    \/ \E t \in TaskIds : ProcessRequest(t)
    \/ \E t \in TaskIds, r \in PlainReturns : HandlerReturn(t, r)
    \/ \E t \in TaskIds, msg \in HandlerErrors : HandlerRaise(t, msg)

RegistrySpec == Init /\ [][NextRegistry]_vars

(***************************************************************************)
(* Server.start, Server.setup and Server.stop, setup() cut at the await of *)
(* the site's start (runner.setup() of an application without startup      *)
(* hooks returns without suspending)                                        *)
(***************************************************************************)
SetupTask(app, port) == [app |-> app, port |-> port, pc |-> "new", runner |-> 0]

\* some runner has a site listening on the port
Listening(port) == \E r \in 1 .. Len(runners) : port \in runners[r].sites

\* start, lines 128-136: the setup() task of the multicast application is
\* created first, then the one of the standard application; start() is called
\* once in a run
StartTasks ==
    /\ setups = <<>>
    /\ setups' = (IF do_multicast THEN <<SetupTask("multicast", "multicast_port")>>
                  ELSE <<>>) \o <<SetupTask("standard", "port")>>
    /\ UNCHANGED <<runner, runners, stopped>>
    /\ UNCHANGED <<secret_key, endpoints, conn, tasks, running, lastRegistered, do_multicast, broadcasts>>
    /\ UNCHANGED cvars

\* setup, lines 319-325 up to `await _webserver.start()`: the task's runner is
\* created, stored in self._runner and set up; tasks start in creation order
SetupRunner(s) ==
    /\ setups[s].pc = "new"
    /\ \A u \in 1 .. s - 1 : setups[u].pc # "new"
    /\ runners' = Append(runners, [app |-> setups[s].app, state |-> "setup", sites |-> {}])
    /\ runner' = Len(runners) + 1
    /\ setups' = [setups EXCEPT ![s] = [@ EXCEPT !.pc = "starting", !.runner = Len(runners) + 1]]
    /\ UNCHANGED stopped
    /\ UNCHANGED <<secret_key, endpoints, conn, tasks, running, lastRegistered, do_multicast, broadcasts>>
    /\ UNCHANGED cvars

\* setup, line 325: the site of the task's runner listens on the task's port
SetupSite(s) ==
    /\ setups[s].pc = "starting"
    /\ runners' = [runners EXCEPT ![setups[s].runner] =
           [@ EXCEPT !.sites = @ \cup {setups[s].port}]]
    /\ setups' = [setups EXCEPT ![s] = [@ EXCEPT !.pc = "done"]]
    /\ running' = (running \/ setups[s].app = "standard")
    /\ UNCHANGED <<runner, stopped>>
    /\ UNCHANGED <<secret_key, endpoints, conn, tasks, lastRegistered, do_multicast, broadcasts>>
    /\ UNCHANGED cvars

\* stop, lines 332-335, called once the setup() tasks have ended:
\* self._runner.shutdown() and self._runner.cleanup() stop that runner's sites
Stop ==
    /\ setups # <<>>
    /\ \A s \in 1 .. Len(setups) : setups[s].pc = "done"
    /\ ~stopped
    /\ runners' = [runners EXCEPT ![runner] = [@ EXCEPT !.state = "closed", !.sites = {}]]
    /\ running' = (running /\ "port" \notin runners[runner].sites)
    /\ stopped' = TRUE
    /\ UNCHANGED <<runner, setups>>
    /\ UNCHANGED <<secret_key, endpoints, conn, tasks, lastRegistered, do_multicast, broadcasts>>
    /\ UNCHANGED cvars

\* the lifecycle specification: the server is started, serves both ports and
\* is stopped
NextLifecycle ==
    \/ Route("ping", OwnHandler["ping"])
    \/ StartTasks
    \/ \E s \in 1 .. Len(setups) : SetupRunner(s)
    \/ \E s \in 1 .. Len(setups) : SetupSite(s)
    \/ Stop
    \/ \E c \in Conns : Accept(c)
    \/ \E c \in Conns : Receive(c, RequestPayload("ping", NoArgs, secret_key))
    \/ \E c \in Conns : Disconnect(c)
    \/ \E request \in ClientFrames : Listening("multicast_port") /\ HandleMulticast(request)
    \/ \E t \in TaskIds : ProcessRequest(t)
    \/ \E t \in TaskIds, r \in PlainReturns : HandlerReturn(t, r)

LifecycleSpec == InitMulticast /\ [][NextLifecycle]_vars

(***************************************************************************)
(* Client: start(), close() and request() calls, each cut at its awaits    *)
(***************************************************************************)
MaxCalls == 4

\* WSMsgType of the message websocket.receive() returns
MsgTypes == {"TEXT", "CLOSED", "PING", "PONG", "ERROR"}

CallIds == 1 .. Len(calls)

Call(op, pc) ==
    [op |-> op, pc |-> pc,
     sess |-> 0,            \* the session object the call is using
     err |-> "",            \* the exception the call ended with
     result |-> "",         \* what the call returned
     conns |-> 0,           \* connections the call has opened
     frames |-> 0,          \* frames the call has sent
     endpoint |-> None,     \* request's endpoint argument
     args |-> EmptyMap,     \* request's keyword arguments
     sent |-> <<>>,         \* the payloads the call has sent
     due |-> FALSE,         \* ghost: a closure was met and no delay has elapsed since
     hasty |-> FALSE,       \* ghost: a connection was opened while a delay was due
     elapsed |-> FALSE,     \* ghost: the timeout passed to the call has elapsed
     depth |-> 0,           \* resets met, each ending in a nested self.request(...)
     stale |-> FALSE,       \* ghost: a start() ran or was called while this close() ran
     afterClose |-> FALSE,  \* ghost: requested after a close(), no start() since
     reply |-> {},          \* the decoded frame request() returned (none or one)
     replyOf |-> 0,         \* ghost: the server task that sent the frame returned
     wasStarted |-> FALSE]  \* ghost: self.started when request() was called

\* a start() is running, called directly or by request() after a reset
StartInFlight ==
    \E i \in CallIds :
        \/ calls[i].op = "start" /\ calls[i].pc # "done"
        \/ calls[i].pc \in {"restarting", "restarted"}

RECURSIVE NestedCalls(_)
NestedCalls(n) == IF n = 0 THEN 0 ELSE calls[n].depth + NestedCalls(n - 1)

\* calls of start(), close() and request() so far, the nested ones included
CallsMade == Len(calls) + NestedCalls(Len(calls))

MarkStale(cs) ==
    [i \in DOMAIN cs |->
        IF cs[i].pc \in {"closing", "recover_closing"}
        THEN [cs[i] EXCEPT !.stale = TRUE] ELSE cs[i]]

Step(i, call) == calls' = [calls EXCEPT ![i] = call]

Fail(call, err) == [call EXCEPT !.pc = "done", !.err = err]

Return(call, result) == [call EXCEPT !.pc = "done", !.result = result]

\* start, lines 211-216: self.session = ClientSession(); await self.session.ws_connect(...)
StartCall ==
    /\ CallsMade < MaxCalls
    /\ sessions' = Append(sessions, "open")
    /\ session' = Len(sessions) + 1
    /\ calls' = Append(MarkStale(calls),
           [Call("start", "connecting") EXCEPT !.sess = Len(sessions) + 1])
    /\ closedSince' = FALSE
    /\ UNCHANGED <<started, closed>>
    /\ UNCHANGED svars

\* start, lines 216 and 224: the connection is made, await connection.close()
StartConnected(i) ==
    /\ calls[i].op = "start" /\ calls[i].pc = "connecting"
    /\ sessions[calls[i].sess] = "open"
    /\ Step(i, [calls[i] EXCEPT !.pc = "connected", !.conns = @ + 1])
    /\ UNCHANGED <<started, closed, session, sessions, closedSince>>
    /\ UNCHANGED svars

\* start, lines 217-222: ws_connect raised, RuntimeError
StartFailed(i) ==
    /\ calls[i].op = "start" /\ calls[i].pc = "connecting"
    /\ Step(i, Fail(calls[i], "RuntimeError: Failed to start the IPC"))
    /\ UNCHANGED <<started, closed, session, sessions, closedSince>>
    /\ UNCHANGED svars

\* start, lines 225-227: self.closed = False; self.started = True; return self
StartFinish(i) ==
    /\ calls[i].op = "start" /\ calls[i].pc = "connected"
    /\ closed' = FALSE
    /\ started' = TRUE
    /\ Step(i, Return(calls[i], "self"))
    /\ UNCHANGED <<session, sessions, closedSince>>
    /\ UNCHANGED svars

\* close, lines 255-257: if self.session: await self.session.close(), which
\* closes the session's connector before it suspends; self.closed = True
CloseCall ==
    /\ CallsMade < MaxCalls
    /\ IF session = 0
       THEN /\ closed' = TRUE
            /\ closedSince' = TRUE
            /\ calls' = Append(calls, Return(Call("close", ""), None))
            /\ UNCHANGED sessions
       ELSE /\ sessions' = [sessions EXCEPT ![session] = "closed"]
            /\ calls' = Append(calls, [Call("close", "closing") EXCEPT
                   !.sess = session, !.stale = StartInFlight])
            /\ UNCHANGED <<closed, closedSince>>
    /\ UNCHANGED <<started, session>>
    /\ UNCHANGED svars

\* close, line 257: self.closed = True
CloseFinish(i) ==
    /\ calls[i].op = "close" /\ calls[i].pc = "closing"
    /\ closed' = TRUE
    /\ closedSince' = IF calls[i].stale THEN closedSince ELSE TRUE
    /\ Step(i, Return(calls[i], None))
    /\ UNCHANGED <<started, session, sessions>>
    /\ UNCHANGED svars

\* request without the self.closed check
RequestEntryUnchecked(call) ==
    IF ~started THEN Fail(call, "IPCError: Session not started yet!")
    ELSE IF sessions[session] = "closed" THEN Fail(call, "RuntimeError: Session is closed")
    ELSE [call EXCEPT !.pc = "connecting", !.sess = session]

\* request, lines 137-144: the two guards, then init_sock, whose
\* self.session.ws_connect(...) raises at once on a closed session
RequestEntry(call) ==
    IF ~started THEN Fail(call, "IPCError: Session not started yet!")
    ELSE IF closed THEN Fail(call, "IPCError: Session closed!")
    ELSE IF sessions[session] = "closed" THEN Fail(call, "RuntimeError: Session is closed")
    ELSE [call EXCEPT !.pc = "connecting", !.sess = session]

\* request(endpoint, **kwargs) is called
RequestCall(endpoint, kwargs) ==
    /\ CallsMade < MaxCalls
    /\ calls' = Append(calls, RequestEntry(
           [Call("request", "") EXCEPT !.afterClose = closedSince /\ ~StartInFlight,
                                       !.wasStarted = started,
                                       !.endpoint = endpoint,
                                       !.args = kwargs]))
    /\ UNCHANGED <<started, closed, session, sessions, closedSince>>
    /\ UNCHANGED svars

\* init_sock, line 98: the connection is made
RequestConnected(i) ==
    /\ calls[i].op = "request" /\ calls[i].pc = "connecting"
    /\ sessions[calls[i].sess] = "open"
    /\ Step(i, [calls[i] EXCEPT !.pc = "sending", !.conns = @ + 1])
    /\ UNCHANGED <<started, closed, session, sessions, closedSince>>
    /\ UNCHANGED svars

\* init_sock, line 98: ws_connect raises, request() does not catch it
RequestConnectFailed(i) ==
    /\ calls[i].op = "request" /\ calls[i].pc = "connecting"
    /\ Step(i, Fail(calls[i], "ClientConnectorError"))
    /\ UNCHANGED <<started, closed, session, sessions, closedSince>>
    /\ UNCHANGED svars

\* request, lines 146-155: the payload is sent
RequestSent(i) ==
    /\ calls[i].op = "request" /\ calls[i].pc = "sending"
    /\ Step(i, [calls[i] EXCEPT !.pc = "receiving", !.frames = @ + 1,
           !.sent = Append(@, RequestPayload(calls[i].endpoint, calls[i].args, secret_key))])
    /\ UNCHANGED <<started, closed, session, sessions, closedSince>>
    /\ UNCHANGED svars

\* request, lines 156-158: ConnectionResetError, await websocket.close(...)
RequestReset(i) ==
    /\ calls[i].op = "request" /\ calls[i].pc = "sending"
    /\ CallsMade < MaxCalls
    /\ Step(i, [calls[i] EXCEPT !.pc = "ws_closing", !.depth = @ + 1, !.due = TRUE])
    /\ UNCHANGED <<started, closed, session, sessions, closedSince>>
    /\ UNCHANGED svars

\* request, line 160: await self.close(), up to its await
RecoverClose(i) ==
    /\ calls[i].pc = "ws_closing"
    /\ sessions' = [sessions EXCEPT ![session] = "closed"]
    /\ Step(i, [calls[i] EXCEPT !.pc = "recover_closing"])
    /\ UNCHANGED <<started, closed, session, closedSince>>
    /\ UNCHANGED svars

\* request, lines 160-161: close() sets self.closed and returns, then
\* await self.start(...), up to its await
RecoverRestart(i) ==
    /\ calls[i].pc = "recover_closing"
    /\ closed' = TRUE
    /\ sessions' = Append(sessions, "open")
    /\ session' = Len(sessions) + 1
    /\ calls' = [MarkStale(calls) EXCEPT ![i] =
           [calls[i] EXCEPT !.pc = "restarting", !.sess = Len(sessions) + 1]]
    /\ closedSince' = FALSE
    /\ UNCHANGED started
    /\ UNCHANGED svars

\* request, line 161: start() has its connection, await connection.close()
RecoverConnected(i) ==
    /\ calls[i].pc = "restarting"
    /\ sessions[calls[i].sess] = "open"
    /\ Step(i, [calls[i] EXCEPT !.pc = "restarted", !.conns = @ + 1,
                                 !.hasty = @ \/ calls[i].due])
    /\ UNCHANGED <<started, closed, session, sessions, closedSince>>
    /\ UNCHANGED svars

\* request, line 161: start() raises RuntimeError
RecoverFailed(i) ==
    /\ calls[i].pc = "restarting"
    /\ Step(i, Fail(calls[i], "RuntimeError: Failed to start the IPC"))
    /\ UNCHANGED <<started, closed, session, sessions, closedSince>>
    /\ UNCHANGED svars

\* request, lines 161-163: start() returns, return await self.request(...)
RecoverFinish(i) ==
    /\ calls[i].pc = "restarted"
    /\ closed' = FALSE
    /\ started' = TRUE
    /\ Step(i, IF sessions[session] = "closed"
               THEN Fail(calls[i], "RuntimeError: Session is closed")
               ELSE [calls[i] EXCEPT !.pc = "connecting", !.sess = session])
    /\ UNCHANGED <<session, sessions, closedSince>>
    /\ UNCHANGED svars

\* request, lines 165-192: await websocket.receive(), then by recv.type
RequestReceive(i, type) ==
    /\ calls[i].op = "request" /\ calls[i].pc = "receiving"
    /\ Step(i, CASE type = "TEXT" -> Return(calls[i], "data")
                 [] type = "ERROR" -> Return(calls[i], None)
                 [] type = "CLOSED" -> [calls[i] EXCEPT !.pc = "sleeping", !.due = TRUE]
                 [] OTHER -> [calls[i] EXCEPT !.pc = "retrying"])
    /\ UNCHANGED <<started, closed, session, sessions, closedSince>>
    /\ UNCHANGED svars

\* request, lines 170-171: await asyncio.sleep(3) returns
RequestSlept(i) ==
    /\ calls[i].pc = "sleeping"
    /\ Step(i, [calls[i] EXCEPT !.pc = "retrying", !.due = FALSE])
    /\ UNCHANGED <<started, closed, session, sessions, closedSince>>
    /\ UNCHANGED svars

\* time passes: the timeout handed to a request that awaits its reply elapses
\* (no line of request() or retry() reads a timeout or starts a timer)
TimeoutElapses(i) ==
    /\ calls[i].pc = "receiving"
    /\ "timeout" \in DOMAIN calls[i].args
    /\ ~calls[i].elapsed
    /\ Step(i, [calls[i] EXCEPT !.elapsed = TRUE])
    /\ UNCHANGED <<started, closed, session, sessions, closedSince>>
    /\ UNCHANGED svars

\* retry, line 105: websocket = await self.init_sock()
Retry(i, ok) ==
    /\ calls[i].pc = "retrying"
    /\ Step(i, IF sessions[session] = "closed"
               THEN Fail(calls[i], "RuntimeError: Session is closed")
               ELSE IF ~ok THEN Fail(calls[i], "ClientConnectorError")
               ELSE [calls[i] EXCEPT !.pc = "retry_sending", !.conns = @ + 1,
                                     !.hasty = @ \/ calls[i].due])
    /\ UNCHANGED <<started, closed, session, sessions, closedSince>>
    /\ UNCHANGED svars

\* retry, lines 112-119: send_json, then request() returns None
RetrySend(i, ok) ==
    /\ calls[i].pc = "retry_sending"
    /\ Step(i, Return([calls[i] EXCEPT
           !.frames = IF ok THEN @ + 1 ELSE @,
           !.sent = IF ok
                    THEN Append(@, RequestPayload(calls[i].endpoint, calls[i].args, secret_key))
                    ELSE @], None))
    /\ UNCHANGED <<started, closed, session, sessions, closedSince>>
    /\ UNCHANGED svars

NextClient ==
    \/ StartCall
    \/ \E i \in CallIds : StartConnected(i)
    \/ \E i \in CallIds : StartFailed(i)
    \/ \E i \in CallIds : StartFinish(i)
    \/ CloseCall
    \/ \E i \in CallIds : CloseFinish(i)
    \/ RequestCall("ping", UserArgs)
    \/ \E i \in CallIds : RequestConnected(i)
    \/ \E i \in CallIds : RequestConnectFailed(i)
    \/ \E i \in CallIds : RequestSent(i)
    \/ \E i \in CallIds : RequestReset(i)
    \/ \E i \in CallIds : RecoverClose(i)
    \/ \E i \in CallIds : RecoverRestart(i)
    \/ \E i \in CallIds : RecoverConnected(i)
    \/ \E i \in CallIds : RecoverFailed(i)
    \/ \E i \in CallIds : RecoverFinish(i)
    \/ \E i \in CallIds, type \in MsgTypes : RequestReceive(i, type)
    \/ \E i \in CallIds : RequestSlept(i)
    \/ \E i \in CallIds, ok \in BOOLEAN : Retry(i, ok)
    \/ \E i \in CallIds, ok \in BOOLEAN : RetrySend(i, ok)

ClientSpec == Init /\ [][NextClient]_vars

\* the client when every request is given a timeout
NextTimeout ==
    \/ StartCall
    \/ \E i \in CallIds : StartConnected(i)
    \/ \E i \in CallIds : StartFailed(i)
    \/ \E i \in CallIds : StartFinish(i)
    \/ CloseCall
    \/ \E i \in CallIds : CloseFinish(i)
    \/ RequestCall("ping", TimedArgs)
    \/ \E i \in CallIds : RequestConnected(i)
    \/ \E i \in CallIds : RequestConnectFailed(i)
    \/ \E i \in CallIds : RequestSent(i)
    \/ \E i \in CallIds : TimeoutElapses(i)
    \/ \E i \in CallIds, type \in MsgTypes : RequestReceive(i, type)
    \/ \E i \in CallIds : RequestSlept(i)
    \/ \E i \in CallIds, ok \in BOOLEAN : Retry(i, ok)
    \/ \E i \in CallIds, ok \in BOOLEAN : RetrySend(i, ok)

TimeoutSpec == Init /\ [][NextTimeout]_vars

(***************************************************************************)
(* Client and server together: the request() call number i holds the       *)
(* connection number i, the one its init_sock opened                       *)
(***************************************************************************)
\* a server that has registered "ping" and was started, and a client with the
\* server's key; nobody is connected
InitExchange ==
    /\ secret_key \in SecretKeys
    /\ endpoints = ("ping" :> OwnHandler["ping"])
    /\ conn = [c \in 1 .. MaxCalls |-> "idle"]
    /\ tasks = <<>>
    /\ running = TRUE
    /\ lastRegistered = endpoints
    /\ do_multicast = FALSE
    /\ broadcasts = <<>>
    /\ InitListeners
    /\ InitClient

\* one socket read by every call: the frames any task has sent
InboxShared(i) == {t \in TaskIds : tasks[t].sent # <<>>}

\* client.py 144 and 165, server.py 184 and 283: the call reads the socket its
\* own init_sock opened, and a task sends on the socket its message came from
Inbox(i) == {t \in TaskIds : tasks[t].conn = i /\ tasks[t].sent # <<>>}

\* request, lines 165 and 187-192: a TEXT frame is received, return recv.json()
ReceiveReply(i) ==
    /\ calls[i].op = "request" /\ calls[i].pc = "receiving"
    /\ \E t \in Inbox(i) :
           Step(i, [Return(calls[i], "data") EXCEPT
               !.reply = {json_loads(tasks[t].sent[1])}, !.replyOf = t])
    /\ UNCHANGED <<started, closed, session, sessions, closedSince>>
    /\ UNCHANGED svars

\* the server's side of call i's ws_connect
Connecting(i) ==
    /\ calls[i].op = "request" /\ calls[i].pc = "connecting"
    /\ sessions[calls[i].sess] = "open"

\* the payload call i has sent has not reached accept_request's loop yet
InFlight(i) ==
    /\ Len(calls[i].sent) = 1
    /\ \A t \in TaskIds : tasks[t].conn # i

NextExchange ==
    \/ StartCall
    \/ \E i \in CallIds : StartConnected(i)
    \/ \E i \in CallIds : StartFinish(i)
    \/ \E name \in Names : RequestCall(name, UserArgs)
    \/ \E i \in CallIds : Connecting(i) /\ Accept(i)
    \/ \E i \in CallIds : conn[i] = "open" /\ RequestConnected(i)
    \/ \E i \in CallIds : RequestSent(i)
    \/ \E i \in CallIds : InFlight(i) /\ Receive(i, calls[i].sent[1])
    \/ \E t \in TaskIds : ProcessRequest(t)
    \/ \E t \in TaskIds, r \in PlainReturns : HandlerReturn(t, r)
    \/ \E i \in CallIds : ReceiveReply(i)

ExchangeSpec == InitExchange /\ [][NextExchange]_vars

(***************************************************************************)
(* Notions the claims use                                                  *)
(***************************************************************************)
\* the Authorization token a frame carries, None when it carries none
TokenOf(request) == IF request.hdr = "auth" THEN request.auth ELSE None

\* the frame is a request (not the liveness probe)
IsRequest(request) == ~request.connection_test

\* the frame names an endpoint
Named(request) == request.endpoint \notin {None, ""}

\* a request as Client.request builds it, with the token the server is configured with
ValidToken(request) == request.hdr = "auth" /\ request.auth = secret_key

\* the request carries headers and the token the server is configured with
PassesAuth(request) == request.hdr \in {"auth", "other"} /\ TokenOf(request) = secret_key

ConnOpen(k) == conn[k.conn] = "open"

\* the decoded frames the task has sent
SentFrames(k) == [i \in 1 .. Len(k.sent) |-> json_loads(k.sent[i])]

\* the task sent exactly one frame, with this code
AnsweredWith(k, code) ==
    /\ Len(k.sent) = 1
    /\ "code" \in DOMAIN SentFrames(k)[1]
    /\ SentFrames(k)[1]["code"] = code

\* json.dumps accepts the dict
Encodable(m) == \A key \in DOMAIN m : key \notin BadKeys /\ m[key] \notin Unserializable

\* the handler, if it was called, gave a result the specification answers with
\* code 200: nothing, a plain string, or an encodable mapping that sets no code
HandlerSucceeded(k) ==
    \A r \in k.hres :
        \/ r.kind \in {"none", "str"}
        \/ r.kind = "mapping" /\ Encodable(r.map) /\ "code" \notin DOMAIN r.map

(***************************************************************************)
(* C1: with a secret configured, every request whose token is missing or   *)
(* differs from the secret is answered with code 403 and invokes no        *)
(* handler.                                                                 *)
(***************************************************************************)
C1_UnauthorizedAnswered403 ==
    \A t \in TaskIds :
        LET k == tasks[t] IN
        (secret_key # None /\ IsRequest(k.request) /\ TokenOf(k.request) # secret_key)
        => /\ k.invoked = <<>>
           /\ (k.pc = "done" /\ ConnOpen(k)) => AnsweredWith(k, "403")

(***************************************************************************)
(* C2: a request naming a registered endpoint with the token the server is *)
(* configured with is answered with code 200 and the registered handler is *)
(* invoked exactly once.                                                    *)
(***************************************************************************)
C2_ValidRequestAnswered200 ==
    \A t \in TaskIds :
        LET k == tasks[t] IN
        (k.pc = "done" /\ ConnOpen(k) /\ ValidToken(k.request) /\ k.found
            /\ HandlerSucceeded(k))
        => /\ AnsweredWith(k, "200")
           /\ k.invoked = <<OwnHandler[k.request.endpoint]>>

(***************************************************************************)
(* C3: every authenticated request naming an endpoint that is not in the   *)
(* registry is answered with code 404, and no handler is invoked.          *)
(***************************************************************************)
C3_UnknownEndpoint404 ==
    \A t \in TaskIds :
        LET k == tasks[t] IN
        (k.pc # "new" /\ PassesAuth(k.request) /\ Named(k.request) /\ ~k.found)
        => /\ k.invoked = <<>>
           /\ k.pc = "done"
           /\ \A i \in 1 .. Len(k.sent) : SentFrames(k)[i]["code"] = "404"
           /\ ConnOpen(k) => AnsweredWith(k, "404")

C3_Witness ==
    \E t \in TaskIds :
        LET k == tasks[t] IN
        /\ secret_key # None
        /\ PassesAuth(k.request) /\ Named(k.request) /\ ~k.found
        /\ k.request.endpoint \notin DOMAIN endpoints
        /\ DOMAIN endpoints # {}
        /\ AnsweredWith(k, "404")
        /\ k.invoked = <<>>

(***************************************************************************)
(* C4: a server constructed without a secret key answers a request for a   *)
(* registered endpoint with code 200 and dispatches it to its handler      *)
(* whatever token the request carries.                                     *)
(***************************************************************************)
C4_NoSecretAcceptsAnyToken ==
    \A t \in TaskIds :
        LET k == tasks[t] IN
        (secret_key = None /\ k.request.hdr = "auth" /\ k.found
            /\ k.pc = "done" /\ ConnOpen(k) /\ HandlerSucceeded(k))
        => /\ AnsweredWith(k, "200")
           /\ Len(k.invoked) = 1

(***************************************************************************)
(* C5: for every frame received on an open connection the server sends     *)
(* exactly one response frame: once the frame's task has ended, and the    *)
(* connection is still open, one frame has been sent for it.               *)
(***************************************************************************)
C5_ExactlyOneResponse ==
    \A t \in TaskIds :
        LET k == tasks[t] IN
        /\ Len(k.sent) <= 1
        /\ (k.pc = "done" /\ ConnOpen(k)) => Len(k.sent) = 1

(***************************************************************************)
(* C6: when a handler raises, the server replies with code 500 and the     *)
(* stringified failure as the error, emits an error notification, and      *)
(* leaves the connection open; a request received on that connection after *)
(* the failure is dispatched and answered as usual.                        *)
(***************************************************************************)
HandlerRaised(k) == \E r \in k.hres : r.kind = "raise"

C6_FailureOf(k) == (CHOOSE r \in k.hres : r.kind = "raise").val

C6_RaiseStep(t) ==
    (tasks[t].pc = "handler" /\ HandlerRaised(tasks'[t]))
    => LET k == tasks'[t] IN
       /\ conn' = conn
       /\ k.pc = "done"
       /\ k.errors # <<>>
       /\ k.errors[Len(k.errors)] = C6_FailureOf(k)
       /\ conn[k.conn] = "open"
          => /\ AnsweredWith(k, "500")
             /\ SentFrames(k)[1] = ErrorResponse(C6_FailureOf(k), "500")

C6_LaterRequests ==
    \A t \in TaskIds :
        LET k == tasks[t] IN
        (k.afterFailure /\ k.pc = "done" /\ ConnOpen(k) /\ ValidToken(k.request)
            /\ k.found /\ HandlerSucceeded(k))
        => /\ AnsweredWith(k, "200")
           /\ Len(k.invoked) = 1

C6_HandlerFailure ==
    [][(\A t \in TaskIds : C6_RaiseStep(t)) /\ C6_LaterRequests']_vars

C6_Witness ==
    \E t1, t2 \in TaskIds :
        /\ t1 < t2
        /\ tasks[t1].conn = tasks[t2].conn
        /\ HandlerRaised(tasks[t1])
        /\ AnsweredWith(tasks[t1], "500")
        /\ tasks[t2].afterFailure
        /\ ConnOpen(tasks[t2])
        /\ AnsweredWith(tasks[t2], "200")
        /\ Len(tasks[t2].invoked) = 1

(***************************************************************************)
(* C7: when a handler returns a value that is neither a mapping nor a      *)
(* plain string, or a mapping that cannot be JSON-encoded, the client      *)
(* receives code 500 with an error message and the host receives an error  *)
(* notification.                                                            *)
(***************************************************************************)
C7_Unsendable(k) ==
    \E r \in k.hres : r.kind = "other" \/ (r.kind = "mapping" /\ ~Encodable(r.map))

C7_UnsendableResult500 ==
    \A t \in TaskIds :
        LET k == tasks[t] IN
        (k.pc = "done" /\ ConnOpen(k) /\ C7_Unsendable(k))
        => /\ AnsweredWith(k, "500")
           /\ "error" \in DOMAIN SentFrames(k)[1]
           /\ k.errors # <<>>

(***************************************************************************)
(* C8: for every mapping M a handler returns, the body the client decodes  *)
(* from the response equals M: either the response frame carries M in its  *)
(* "response" field next to the code, or the decoded frame is M itself.    *)
(***************************************************************************)
C8_MappingRoundTrips ==
    \A t \in TaskIds :
        LET k == tasks[t] IN
        (k.pc = "done" /\ ConnOpen(k)
            /\ \E r \in k.hres : r.kind = "mapping" /\ Encodable(r.map))
        => /\ Len(k.sent) = 1
           /\ LET M == (CHOOSE r \in k.hres : TRUE).map
                  D == SentFrames(k)[1]
              IN  \/ {"code", "response"} \subseteq DOMAIN D
                  \/ D = M

(***************************************************************************)
(* C9: the payload handed to the handler exposes the arguments the client  *)
(* passed to request(): looking up each argument name on the payload       *)
(* yields the value sent.                                                  *)
(***************************************************************************)
\* the keyword arguments the client passed (Client.request sends them as "data")
C9_ArgumentsSent(request) == CHOOSE kw \in request.data : TRUE

C9_PayloadExposesArguments ==
    \A t \in TaskIds :
        LET k == tasks[t] IN
        \A p \in k.payload :
            (k.request.data # {})
            => \A name \in DOMAIN C9_ArgumentsSent(k.request) :
                   /\ PayloadGetItem(p, name) =
                          [err |-> "", val |-> C9_ArgumentsSent(k.request)[name]]
                   /\ PayloadGetAttr(p, name) =
                          [err |-> "", val |-> C9_ArgumentsSent(k.request)[name]]

C11_ReturnsResponseOrRaises ==
    \A i \in CallIds :
        (calls[i].op = "request" /\ calls[i].pc = "done")
        => (calls[i].err # "" \/ calls[i].result = "data")

(***************************************************************************)
(* C12: whenever request() meets an abrupt closure (a CLOSED message or a  *)
(* connection reset while sending) it opens no connection before the       *)
(* reconnect delay has elapsed, and every payload it sends carries the      *)
(* endpoint and the arguments of the call.                                  *)
(***************************************************************************)
C12_DelayBeforeReconnect ==
    \A i \in CallIds :
        calls[i].op = "request"
        => /\ ~calls[i].hasty
           /\ \A n \in 1 .. Len(calls[i].sent) :
                  /\ calls[i].sent[n].endpoint = calls[i].endpoint
                  /\ calls[i].sent[n].data = {calls[i].args}

(***************************************************************************)
(* C13: when the timeout given to request() elapses before a reply has     *)
(* arrived, the call stops waiting and fails with RequestTimedOut.         *)
(***************************************************************************)
C13_TimeoutEndsTheWait ==
    \A i \in CallIds :
        calls[i].elapsed
        => /\ calls[i].pc = "done"
           /\ calls[i].err = "RequestTimedOut"

(***************************************************************************)
(* C14: once a client holds the reservation of the standard channel, a     *)
(* frame from another client is answered with code 422 naming the holder   *)
(* and invokes no handler.  The holder is the first sender among the       *)
(* clients still connected.                                                *)
(***************************************************************************)
C14_OtherIdentityRejected ==
    \A t \in TaskIds :
        LET k == tasks[t] IN
        (k.holder # k.conn)
        => /\ k.invoked = <<>>
           /\ (k.pc = "done" /\ ConnOpen(k))
              => /\ AnsweredWith(k, "422")
                 /\ \E key \in DOMAIN SentFrames(k)[1] : SentFrames(k)[1][key] = k.holder

(***************************************************************************)
(* C15: a request made on the multicast channel for an endpoint that is    *)
(* not broadcast-eligible (the server marks none as eligible) is answered  *)
(* with a rejection status and invokes no handler, whether or not its      *)
(* token is valid.                                                          *)
(***************************************************************************)
RejectionStatuses == {"403", "404", "422", "500"}

C16_ProbeAnswered200 ==
    \A t \in TaskIds :
        LET k == tasks[t] IN
        k.request.connection_test
        => /\ k.invoked = <<>>
           /\ k.errors = <<>>
           /\ (k.pc = "done" /\ ConnOpen(k)) => AnsweredWith(k, "200")

(***************************************************************************)
(* C17: once start() has been called the set of registered endpoints never *)
(* changes: a registration made after it leaves the registry as it was.    *)
(***************************************************************************)
C17_RegistrySealedAfterStart ==
    [][running => endpoints' = endpoints]_vars

(***************************************************************************)
(* C18: registering a name again replaces its entry: the registry holds    *)
(* for each name the handler registered last, and a request for the name   *)
(* invokes that handler only.                                               *)
(***************************************************************************)
C18_InvokesLastRegistered(t) ==
    (tasks[t].pc = "new" /\ tasks'[t].invoked # <<>>)
    => tasks'[t].invoked = <<lastRegistered[tasks[t].request.endpoint]>>

C18_LastRegistrationWins ==
    [][/\ endpoints' = lastRegistered'
       /\ \A t \in TaskIds : C18_InvokesLastRegistered(t)]_vars

C18_Witness ==
    \E t1, t2 \in TaskIds :
        /\ t1 < t2
        /\ tasks[t1].request.endpoint = tasks[t2].request.endpoint
        /\ tasks[t1].invoked = <<"h1">>
        /\ tasks[t2].invoked = <<"h2">>
        /\ endpoints[tasks[t2].request.endpoint] = "h2"

(***************************************************************************)
(* C19: the dispatch checks stop at the first that applies: a request that *)
(* fails authentication and names no endpoint or an unregistered one is    *)
(* answered 403, never 404; a request that passes authentication and names *)
(* no endpoint is answered 404 "no endpoint provided".                     *)
(***************************************************************************)
C19_FailsAuth(request) ==
    secret_key # None /\ IsRequest(request) /\ TokenOf(request) # secret_key

C19_ChecksInOrder ==
    \A t \in TaskIds :
        LET k == tasks[t] IN
        /\ (C19_FailsAuth(k.request) /\ (~Named(k.request) \/ ~k.found))
           => /\ \A n \in 1 .. Len(k.sent) : SentFrames(k)[n]["code"] # "404"
              /\ (k.pc = "done" /\ ConnOpen(k)) => AnsweredWith(k, "403")
        /\ (PassesAuth(k.request) /\ ~Named(k.request) /\ k.pc = "done" /\ ConnOpen(k))
           => /\ SentFrames(k) = <<ErrorResponse(
                     "Received invalid request (no endpoint provided)", "404")>>
              /\ k.errors[Len(k.errors)] = "no endpoint provided"

(***************************************************************************)
(* C20: messages are dispatched as independent units: while the handler of *)
(* one message has not returned, a later message on the same or on another *)
(* connection can be received, dispatched and answered, so replies may     *)
(* leave in another order than the requests arrived.                       *)
(***************************************************************************)
C20_HandlerPending == \E t \in TaskIds : tasks[t].pc = "handler"

C20_IndependentDispatch ==
    C20_HandlerPending
    => /\ \A c \in Peers :
              (conn[c] = "open" /\ Len(tasks) < MaxTasks)
              => ENABLED Receive(c, RequestPayload("ping", NoArgs, secret_key))
       /\ \A t \in TaskIds :
              /\ tasks[t].pc = "new" => ENABLED ProcessRequest(t)
              /\ tasks[t].pc = "handler"
                 => \A r \in PlainReturns : ENABLED HandlerReturn(t, r)

C20_Witness ==
    \E t1, t2 \in TaskIds :
        /\ t1 < t2
        /\ tasks[t1].conn # tasks[t2].conn
        /\ tasks[t1].pc = "handler"
        /\ AnsweredWith(tasks[t2], "200")
        /\ Len(tasks[t2].invoked) = 1

(***************************************************************************)
(* C21: when every send meets a connection reset and every reconnect       *)
(* succeeds, request() gives up after a bounded number of reconnects and   *)
(* raises to its caller: something in request() stops the reconnects       *)
(* before the calls this model allows are used up.                         *)
(***************************************************************************)
C21_BoundedReconnects ==
    \A i \in CallIds :
        calls[i].op = "request" => calls[i].depth < MaxCalls - 2

(***************************************************************************)
(* C22: every response frame the server sends carries a status code; when  *)
(* the handler's result is a mapping that sets a code the frame carries    *)
(* that code unchanged, and when the result sets no code, or the handler   *)
(* returns nothing, the frame carries code 200.                            *)
(***************************************************************************)
C22_CodeOf(r) ==
    IF r.kind = "mapping" /\ "code" \in DOMAIN r.map THEN r.map["code"] ELSE "200"

C22_EveryFrameCarriesCode ==
    \A t \in TaskIds :
        LET k == tasks[t] IN
        \A n \in 1 .. Len(k.sent) :
            /\ "code" \in DOMAIN SentFrames(k)[n]
            /\ \A r \in k.hres :
                   (r.kind = "none" \/ (r.kind = "mapping" /\ Encodable(r.map)))
                   => SentFrames(k)[n]["code"] = C22_CodeOf(r)

(***************************************************************************)
(* C23: a request() call is rejected as closed, or has the session it uses *)
(* closed under it, only if the user has called close(): the close() and   *)
(* start() that a request() runs to recover from a connection reset never  *)
(* do that to another request() call on the same client.                   *)
(***************************************************************************)
C23_UserClosed == \E j \in CallIds : calls[j].op = "close"

C23_ClosedErrors == {"IPCError: Session closed!", "RuntimeError: Session is closed"}

\* the call is between its entry and its return, outside its own recovery
C23_UsingSession(call) ==
    call.pc \in {"connecting", "sending", "receiving", "sleeping", "retrying",
                 "retry_sending"}

C23_ClosedOnlyByUser ==
    \A i \in CallIds :
        LET call == calls[i] IN
        (call.op = "request" /\ ~C23_UserClosed)
        => /\ call.err \notin C23_ClosedErrors
           /\ (C23_UsingSession(call) /\ call.sess # 0)
              => sessions[call.sess] = "open"

(***************************************************************************)
(* C24: when request() calls on one started client overlap, the response   *)
(* each call returns is the frame the server sent for that call's own      *)
(* envelope, on that call's own connection; no reply reaches another call. *)
(***************************************************************************)
C24_OwnReply ==
    \A i \in CallIds :
        LET call == calls[i] IN
        (call.op = "request" /\ call.result = "data")
        => /\ call.replyOf \in TaskIds
           /\ tasks[call.replyOf].conn = i
           /\ tasks[call.replyOf].request = call.sent[1]
           /\ tasks[call.replyOf].request.endpoint = call.endpoint
           /\ call.reply = {SentFrames(tasks[call.replyOf])[1]}
           /\ \A j \in CallIds \ {i} : calls[j].replyOf # call.replyOf

\* two calls overlapped, were answered in the other order, with different
\* replies, and each returned its own
C24_Witness ==
    \E i, j \in CallIds :
        /\ i < j
        /\ calls[i].result = "data" /\ calls[j].result = "data"
        /\ calls[i].endpoint # calls[j].endpoint
        /\ calls[i].reply # calls[j].reply
        /\ calls[j].replyOf < calls[i].replyOf

(***************************************************************************)
(* C25: once stop() has returned, every listener start() brought up is     *)
(* down: no port is listened on and no runner that setup() created is      *)
(* still set up, with or without the multicast channel.                    *)
(***************************************************************************)
C25_StopShutsEveryListener ==
    stopped
    => /\ ~Listening("port")
       /\ ~Listening("multicast_port")
       /\ \A r \in 1 .. Len(runners) : runners[r].state = "closed"

(***************************************************************************)
(* C26: the host is sent an ipc_error notification for a request only when *)
(* the request is answered with a code other than 200, and at most once    *)
(* per request: a request answered with 200 emits none and an unauthorized *)
(* request emits exactly one.                                              *)
(***************************************************************************)
C26_OneErrorPerFailure ==
    \A t \in TaskIds :
        LET k == tasks[t] IN
        /\ Len(k.errors) <= 1
        /\ (k.errors # <<>> /\ k.pc = "done")
           => \A n \in 1 .. Len(k.sent) : SentFrames(k)[n]["code"] # "200"
        /\ AnsweredWith(k, "200") => k.errors = <<>>
        /\ AnsweredWith(k, "403") => Len(k.errors) = 1

====
